---- MODULE Spec2Model ----
(***************************************************************************)
(* Model of src/src/requests.rs (bim-core): connection establishment with  *)
(* bounded retry, the TCP latency probe, and the download / upload         *)
(* throughput workers synchronised by a start barrier, a stop flag and an  *)
(* end barrier around a shared byte counter.                               *)
(***************************************************************************)
EXTENDS Integers, Sequences, FiniteSets, TLC

\* ---- bounds of the model ------------------------------------------------
NumWorkers == 2      \* workers spawned in one measurement run
MaxOps == 3          \* stream calls (write_all / read_exact) started in one run
PathLen == 1         \* byte length of url.path()
HostPortLen == 3     \* byte length of "{host}:{port}"
NowDigits == 13      \* decimal digits of the unix-millisecond timestamp
NumAddrs == 3        \* distinct socket addresses a probe may be called with
ExtraOps == 2        \* stream calls followed beyond one complete request cycle
FairOps == 2         \* stream calls started in one run under fair scheduling

\* ---- program constants --------------------------------------------------
MaxRetry == 3
ChunkBytes == 65536
PingSentinel == 1000000
PingTimeout == 1000000

\* ---- process identities -------------------------------------------------
Caller == 0                       \* a direct caller of make_connection
Workers == 1..NumWorkers          \* request_http_download / request_http_upload threads
Orch == NumWorkers + 1            \* the orchestrator thread
Procs == 0..(NumWorkers + 1)
Parties == Workers \cup {Orch}    \* the parties both barriers are sized for
Barriers == {"start", "end"}

\* elapsed microseconds the probe may measure around its connect call
Elapsed == {0, 1, 250, 999999, 1000000, 1000001, 1000500}

ConnectOutcomes == {"ok", "refused", "timeout"}
Hosts == {"ok", "bad", "none"}    \* url.host_str(): a valid server name, an
                                  \* invalid one, or no host at all

VARIABLES
    kind,              \* worker -> "download" | "upload"
    ssl,               \* encryption flag
    connection_close,  \* high-volume mode flag
    host,              \* what url.host_str() yields
    op_limit,          \* stream calls after which the run is followed no further
    pc,                \* position of every process
    retry,             \* make_connection: remaining attempts
    ret,               \* make_connection: "none" | "Ok" | "Err" | "panic"
    trace,             \* history: outcomes of the direct caller's connect attempts
    data_counter,      \* worker-local per-resource counter
    ops,               \* history: stream calls returned to the workers so far
    pend,              \* what the worker is about to credit: "none"|"head"|"chunk"
    tmp,               \* value of the counter loaded under the write guard
    credited,          \* history: bytes the workers have added to the counter
    counter,           \* Arc<RwLock<u128>> shared byte counter
    lock,              \* holder of the counter's write guard (0: free)
    flag,              \* Arc<RwLock<bool>> stop flag
    bcount,            \* barrier -> number of parties currently waiting
    bgen,              \* barrier -> generation id
    lgen,              \* process -> generation seen when it started waiting
    arrived,           \* history: barrier -> process -> number of wait() calls
    final,             \* value the orchestrator read after the end barrier
    ping_pc,           \* position of request_tcp_ping
    ping_addr,         \* the address the probe was called with
    ping_r,            \* result of the single connect_timeout
    ping_used,         \* elapsed microseconds measured
    ping_ret,          \* returned value: <<"Ok", n>> or <<"none">>
    ping_attempts      \* history: connect_timeout calls made by the probe

connVars == <<pc, retry, ret, trace>>
inputVars == <<kind, ssl, connection_close, host, op_limit>>
workVars == <<data_counter, ops, pend, tmp, credited, counter, lock>>
syncVars == <<flag, bcount, bgen, lgen, arrived, final>>
pingVars == <<ping_pc, ping_addr, ping_r, ping_used, ping_ret, ping_attempts>>
vars == <<inputVars, connVars, workVars, syncVars, pingVars>>

\* ---- pure helpers -------------------------------------------------------
\* data_size, data_counter and the shared counter are u128 and exceed the
\* checker's integers in connection-close mode (15000 * 1024 * 1024), so
\* they are kept as two
\* limbs, value = hi * 2^16 + lo with 0 <= lo < 2^16
Radix == 2 ^ 16

Wide(n) == [hi |-> n \div Radix, lo |-> n % Radix]

WideAdd(a, n) == [hi |-> a.hi + ((a.lo + n) \div Radix), lo |-> (a.lo + n) % Radix]

WideMul(a, k) == [hi |-> a.hi * k + ((a.lo * k) \div Radix), lo |-> (a.lo * k) % Radix]

WideGeq(a, b) == a.hi > b.hi \/ (a.hi = b.hi /\ a.lo >= b.lo)

\* a % m for a divisor m of Radix (the chunk size 65536 is one)
WideMod(a, m) == ((a.hi % m) * (Radix % m) + a.lo) % m

\* lines 89-96 / 182-189
ChunkCount(cc) == IF cc THEN 15000 ELSE 50

\* lines 97 / 190: chunk_count * 1024 * 1024 as u128
DataSize(cc) == WideMul(WideMul(Wide(ChunkCount(cc)), 1024), 1024)

\* a / 10 and a % 10 for a two-limb number
WideDiv10(a) == [hi |-> a.hi \div 10, lo |-> ((a.hi % 10) * Radix + a.lo) \div 10]

WideMod10(a) == ((a.hi % 10) * Radix + a.lo) % 10

DigitChar(d) == <<"0", "1", "2", "3", "4", "5", "6", "7", "8", "9">>[d + 1]

\* format!("{}", n): the decimal text of n (the quotient is bound to its
\* value before the recursive call, so each digit is computed once)
RECURSIVE WideText(_)
WideText(n) ==
    IF n.hi = 0 /\ n.lo < 10 THEN DigitChar(n.lo)
    ELSE CHOOSE t \in {WideText(q) \o DigitChar(WideMod10(n)) : q \in {WideDiv10(n)}} : TRUE

RECURSIVE Rep(_, _)
Rep(c, n) == IF n <= 0 THEN "" ELSE c \o Rep(c, n - 1)

\* the texts the workers format their requests from
UrlPath == "/" \o Rep("p", PathLen - 1)

HostPort == Rep("h", HostPortLen - 2) \o ":8"

NowText == Rep("1", NowDigits)

\* lines 124-136: the GET request head of a download cycle
GetHead(cc) ==
    "GET " \o UrlPath \o "?cors=true&r=" \o NowText
           \o "&ckSize=" \o WideText(Wide(ChunkCount(cc)))
           \o "&size=" \o WideText(DataSize(cc))
           \o " HTTP/1.1\r\nHost: " \o HostPort
           \o "\r\nUser-Agent: bim/1.0\r\n\r\n"

\* lines 219-228: the POST request head of an upload cycle
PostHead(cc) ==
    "POST " \o UrlPath \o "?r=" \o NowText
            \o " HTTP/1.1\r\nHost: " \o HostPort
            \o "\r\nUser-Agent: bim/1.0\r\nContent-Length: " \o WideText(DataSize(cc))
            \o "\r\n\r\n"

\* ---- initial states -----------------------------------------------------
IdleCommon ==
    /\ retry = [p \in Procs |-> 0]
    /\ ret = [p \in Procs |-> "none"]
    /\ trace = <<>>
    /\ data_counter = [w \in Workers |-> Wide(0)]
    /\ ops = 0
    /\ pend = [w \in Workers |-> "none"]
    /\ tmp = [w \in Workers |-> Wide(0)]
    /\ credited = Wide(0)
    /\ counter = Wide(0)
    /\ lock = 0
    /\ flag = FALSE
    /\ bcount = [b \in Barriers |-> 0]
    /\ bgen = [b \in Barriers |-> 0]
    /\ lgen = [p \in Procs |-> 0]
    /\ arrived = [b \in Barriers |-> [p \in Procs |-> 0]]
    /\ final = Wide(0)
    /\ ping_r = "none"
    /\ ping_used = -1
    /\ ping_ret = <<"none">>
    /\ ping_attempts = 0

\* a measurement run: the orchestrator has spawned the workers, all on the
\* same target, whose URL has a host (an http or https URL always has one)
RunStart ==
    /\ IdleCommon
    /\ kind \in [Workers -> {"download", "upload"}]
    /\ ssl \in BOOLEAN
    /\ connection_close \in BOOLEAN
    /\ host \in {"ok", "bad"}
    /\ pc = [p \in Procs |-> IF p \in Workers THEN "setup"
                              ELSE IF p = Orch THEN "o_start" ELSE "idle"]
    /\ ping_pc = "idle"
    /\ ping_addr = 0

Init ==
    /\ RunStart
    /\ op_limit = MaxOps

\* the runs followed under fair scheduling: an encrypted target in normal
\* mode, whose host may or may not be a valid server name
InitFair ==
    /\ RunStart
    /\ ssl
    /\ ~connection_close
    /\ op_limit = FairOps

\* a direct call of make_connection(address, url, ssl)
InitConn ==
    /\ IdleCommon
    /\ kind = [w \in Workers |-> "download"]
    /\ ssl \in BOOLEAN
    /\ connection_close = FALSE
    /\ host \in Hosts
    /\ op_limit = MaxOps
    /\ pc = [p \in Procs |-> IF p = Caller THEN "call" ELSE "idle"]
    /\ ping_pc = "idle"
    /\ ping_addr = 0

\* a call of request_tcp_ping(address)
InitPing ==
    /\ IdleCommon
    /\ kind = [w \in Workers |-> "download"]
    /\ ssl = FALSE
    /\ connection_close = FALSE
    /\ host = "ok"
    /\ op_limit = MaxOps
    /\ pc = [p \in Procs |-> "idle"]
    /\ ping_pc = "p_start"
    /\ ping_addr \in 1..NumAddrs

\* ---- make_connection ----------------------------------------------------
\* line 21: let mut retry = 3
McEnter(p) ==
    /\ pc[p] = "call"
    /\ pc' = [pc EXCEPT ![p] = "mc"]
    /\ retry' = [retry EXCEPT ![p] = MaxRetry]
    /\ UNCHANGED <<ret, trace>>
    /\ UNCHANGED <<inputVars, workVars, syncVars, pingVars>>

\* variant: a failed set-up of the encrypted session costs one retry and
\* the loop goes on to another connect attempt
McAttemptEffRetriesTls(p, r) ==
    /\ trace' = IF p = Caller THEN Append(trace, r) ELSE trace
    /\ IF r = "ok" /\ (~ssl \/ host = "ok")
       THEN /\ retry' = [retry EXCEPT ![p] = 0]
            /\ ret' = [ret EXCEPT ![p] = "Ok"]
            /\ pc' = [pc EXCEPT ![p] = "mc_ret"]
       ELSE /\ retry' = [retry EXCEPT ![p] = @ - 1]
            /\ UNCHANGED <<ret, pc>>

\* the effect of one iteration of the while loop whose connect_timeout
\* returned r; a return or a panic pops the frame that held `retry`
McAttemptEff(p, r) ==
    /\ trace' = IF p = Caller THEN Append(trace, r) ELSE trace
    /\ IF r = "ok"
       THEN /\ retry' = [retry EXCEPT ![p] = 0]
            /\ IF ~ssl
               THEN /\ ret' = [ret EXCEPT ![p] = "Ok"]
                    /\ pc' = [pc EXCEPT ![p] = "mc_ret"]
               ELSE IF host # "ok"
               THEN /\ ret' = [ret EXCEPT ![p] = "panic"]
                    /\ pc' = [pc EXCEPT ![p] = "panicked"]
               ELSE /\ ret' = [ret EXCEPT ![p] = "Ok"]
                    /\ pc' = [pc EXCEPT ![p] = "mc_ret"]
       ELSE /\ retry' = [retry EXCEPT ![p] = @ - 1]
            /\ UNCHANGED <<ret, pc>>

\* variant: the loop condition is `retry >= 0`
McAttemptOffByOne(p) ==
    /\ pc[p] = "mc"
    /\ retry[p] >= 0
    /\ \E r \in ConnectOutcomes : McAttemptEff(p, r)
    /\ UNCHANGED <<inputVars, workVars, syncVars, pingVars>>

\* lines 22-59: one iteration of `while retry > 0`
McAttempt(p) ==
    /\ pc[p] = "mc"
    /\ retry[p] > 0
    /\ \E r \in ConnectOutcomes : McAttemptEff(p, r)
    /\ UNCHANGED <<inputVars, workVars, syncVars, pingVars>>

\* line 60: the loop ended without a stream
McExhausted(p) ==
    /\ pc[p] = "mc"
    /\ ~(retry[p] > 0)
    /\ ret' = [ret EXCEPT ![p] = "Err"]
    /\ pc' = [pc EXCEPT ![p] = "mc_ret"]
    /\ UNCHANGED <<retry, trace>>
    /\ UNCHANGED <<inputVars, workVars, syncVars, pingVars>>

CallMakeConnection == McEnter(Caller)

ConnAttempt == McAttempt(Caller)

ConnExhausted == McExhausted(Caller)

NextConn == CallMakeConnection \/ ConnAttempt \/ ConnExhausted

SpecConn == InitConn /\ [][NextConn]_vars

\* ---- std::sync::Barrier as used by the workers --------------------------
\* Barrier::new(n): both barriers are sized for every worker plus the
\* orchestrator
BarrierSize == NumWorkers + 1

\* Barrier::wait, arrival: count += 1; the last party resets the count and
\* bumps the generation, any other party records the generation and blocks
BarrierArrive(b, p, next, blocked) ==
    /\ arrived' = [arrived EXCEPT ![b][p] = @ + 1]
    /\ IF bcount[b] + 1 < BarrierSize
       THEN /\ bcount' = [bcount EXCEPT ![b] = @ + 1]
            /\ lgen' = [lgen EXCEPT ![p] = bgen[b]]
            /\ pc' = [pc EXCEPT ![p] = blocked]
            /\ bgen' = bgen
       ELSE /\ bcount' = [bcount EXCEPT ![b] = 0]
            /\ bgen' = [bgen EXCEPT ![b] = @ + 1]
            /\ pc' = [pc EXCEPT ![p] = next]
            /\ lgen' = lgen

\* Barrier::wait, release: a blocked party returns once the generation moved
BarrierWake(b, p, next) ==
    /\ bgen[b] # lgen[p]
    /\ pc' = [pc EXCEPT ![p] = next]
    /\ UNCHANGED <<bcount, bgen, lgen, arrived>>

\* ---- throughput workers: the part common to download and upload ---------
\* lines 89-108 / 182-203: local set-up, then the call of make_connection
\* (line 21); url.host_str().unwrap() panics on a URL without a host
WorkerSetup(w) ==
    /\ pc[w] = "setup"
    /\ data_counter' = [data_counter EXCEPT ![w] = DataSize(connection_close)]
    /\ pc' = [pc EXCEPT ![w] = IF host = "none" THEN "panicked" ELSE "mc"]
    /\ retry' = [retry EXCEPT ![w] = IF host = "none" THEN @ ELSE MaxRetry]
    /\ UNCHANGED <<ret, trace>>
    /\ UNCHANGED <<ops, pend, tmp, credited, counter, lock>>
    /\ UNCHANGED <<inputVars, syncVars, pingVars>>

\* variant: the Err arm returns after barrier.wait() without calling end.wait()
AfterStartSkipsEnd(w) == IF ret[w] = "Ok" THEN "loop" ELSE "done"

\* lines 108-117 / 203-212: where a worker continues once barrier.wait()
\* has returned: the Ok arm enters the loop, the Err arm calls end.wait()
AfterStart(w) == IF ret[w] = "Ok" THEN "loop" ELSE "end_wait"

\* variant: the worker registers at the start barrier but does not block on it
StartArriveNoBlock(w) ==
    /\ pc[w] = "mc_ret"
    /\ BarrierArrive("start", w, AfterStart(w), AfterStart(w))
    /\ UNCHANGED <<retry, ret, trace, flag, final>>
    /\ UNCHANGED <<inputVars, workVars, pingVars>>

\* lines 108-117 / 203-212: match make_connection(..), then barrier.wait()
\* in either arm (line 111 / 206 for Err, line 117 / 212 for Ok)
StartArrive(w) ==
    /\ pc[w] = "mc_ret"
    /\ BarrierArrive("start", w, AfterStart(w), "start_blocked")
    /\ UNCHANGED <<retry, ret, trace, flag, final>>
    /\ UNCHANGED <<inputVars, workVars, pingVars>>

StartWake(w) ==
    /\ pc[w] = "start_blocked"
    /\ BarrierWake("start", w, AfterStart(w))
    /\ UNCHANGED <<retry, ret, trace, flag, final>>
    /\ UNCHANGED <<inputVars, workVars, pingVars>>

\* variant: the stop flag is consulted only between whole requests, when the
\* local counter has reached the declared total
LoopCheckOncePerRequest(w) ==
    /\ pc[w] = "loop"
    /\ flag \/ ops < op_limit
    /\ pc' = [pc EXCEPT ![w] =
                IF WideGeq(data_counter[w], DataSize(connection_close))
                THEN (IF flag THEN "end_wait" ELSE "send_head")
                ELSE "io_chunk"]
    /\ UNCHANGED <<retry, ret, trace>>
    /\ UNCHANGED <<inputVars, workVars, syncVars, pingVars>>

\* variant: a worker that reads the stop flag as true returns without
\* calling end.wait()
LoopCheckReturnsOnStop(w) ==
    /\ pc[w] = "loop"
    /\ flag \/ ops < op_limit
    /\ pc' = [pc EXCEPT ![w] =
                IF flag THEN "done"
                ELSE IF WideGeq(data_counter[w], DataSize(connection_close))
                     THEN "send_head" ELSE "io_chunk"]
    /\ UNCHANGED <<retry, ret, trace>>
    /\ UNCHANGED <<inputVars, workVars, syncVars, pingVars>>

\* variant: the comparison is `data_counter > data_size`
LoopCheckStrict(w) ==
    /\ pc[w] = "loop"
    /\ flag \/ ops < op_limit
    /\ pc' = [pc EXCEPT ![w] =
                IF flag THEN "end_wait"
                ELSE IF data_counter[w] # DataSize(connection_close)
                        /\ WideGeq(data_counter[w], DataSize(connection_close))
                     THEN "send_head" ELSE "io_chunk"]
    /\ UNCHANGED <<retry, ret, trace>>
    /\ UNCHANGED <<inputVars, workVars, syncVars, pingVars>>

\* variant: the stop flag is not consulted when a request head is due
LoopCheckHeadFirst(w) ==
    /\ pc[w] = "loop"
    /\ flag \/ ops < op_limit
    /\ pc' = [pc EXCEPT ![w] =
                IF WideGeq(data_counter[w], DataSize(connection_close))
                THEN "send_head"
                ELSE IF flag THEN "end_wait" ELSE "io_chunk"]
    /\ UNCHANGED <<retry, ret, trace>>
    /\ UNCHANGED <<inputVars, workVars, syncVars, pingVars>>

\* lines 118-119 / 213-214: while !*flag.read() { if data_counter >= data_size
LoopCheck(w) ==
    /\ pc[w] = "loop"
    /\ flag \/ ops < op_limit
    /\ pc' = [pc EXCEPT ![w] =
                IF flag THEN "end_wait"
                ELSE IF WideGeq(data_counter[w], DataSize(connection_close))
                     THEN "send_head" ELSE "io_chunk"]
    /\ UNCHANGED <<retry, ret, trace>>
    /\ UNCHANGED <<inputVars, workVars, syncVars, pingVars>>

\* variant: every credit is one chunk, the header included
AmountAlwaysChunk(w) == ChunkBytes

\* the number of bytes the worker is about to add to the shared counter
Amount(w) ==
    IF pend[w] = "head" THEN Len(PostHead(connection_close)) ELSE ChunkBytes

\* variant: the counter is loaded without waiting for the write guard
CounterLockNoWait(w) ==
    /\ pc[w] = "credit"
    /\ lock' = w
    /\ tmp' = [tmp EXCEPT ![w] = counter]
    /\ pc' = [pc EXCEPT ![w] = "credit_add"]
    /\ UNCHANGED <<retry, ret, trace>>
    /\ UNCHANGED <<data_counter, ops, pend, credited, counter>>
    /\ UNCHANGED <<inputVars, syncVars, pingVars>>

\* lines 154 / 233 / 251: let mut ct = counter.write().unwrap()
CounterLock(w) ==
    /\ pc[w] = "credit"
    /\ lock = 0
    /\ lock' = w
    /\ tmp' = [tmp EXCEPT ![w] = counter]
    /\ pc' = [pc EXCEPT ![w] = "credit_add"]
    /\ UNCHANGED <<retry, ret, trace>>
    /\ UNCHANGED <<data_counter, ops, pend, credited, counter>>
    /\ UNCHANGED <<inputVars, syncVars, pingVars>>

\* variant: crediting a written POST head leaves the local counter alone
CounterAddHeadKeepsCounter(w) ==
    /\ pc[w] = "credit_add"
    /\ counter' = WideAdd(tmp[w], Amount(w))
    /\ credited' = WideAdd(credited, Amount(w))
    /\ lock' = 0
    /\ data_counter' = [data_counter EXCEPT ![w] =
                          IF pend[w] = "head" THEN @
                          ELSE WideAdd(@, ChunkBytes)]
    /\ pend' = [pend EXCEPT ![w] = "none"]
    /\ tmp' = [tmp EXCEPT ![w] = Wide(0)]
    /\ pc' = [pc EXCEPT ![w] = "loop"]
    /\ UNCHANGED <<retry, ret, trace, ops>>
    /\ UNCHANGED <<inputVars, syncVars, pingVars>>

\* lines 155-157 / 234-237 / 252-254: *ct += n; the guard is dropped; the
\* local counter is reset (header) or advanced (chunk)
CounterAdd(w) ==
    /\ pc[w] = "credit_add"
    /\ counter' = WideAdd(tmp[w], Amount(w))
    /\ credited' = WideAdd(credited, Amount(w))
    /\ lock' = 0
    /\ data_counter' = [data_counter EXCEPT ![w] =
                          IF pend[w] = "head" THEN Wide(0)
                          ELSE WideAdd(@, ChunkBytes)]
    /\ pend' = [pend EXCEPT ![w] = "none"]
    /\ tmp' = [tmp EXCEPT ![w] = Wide(0)]
    /\ pc' = [pc EXCEPT ![w] = "loop"]
    /\ UNCHANGED <<retry, ret, trace, ops>>
    /\ UNCHANGED <<inputVars, syncVars, pingVars>>

\* lines 112, 146, 163, 169 / 207, 243, 260, 266: end.wait()
EndArrive(w) ==
    /\ pc[w] = "end_wait"
    /\ BarrierArrive("end", w, "done", "end_blocked")
    /\ UNCHANGED <<retry, ret, trace, flag, final>>
    /\ UNCHANGED <<inputVars, workVars, pingVars>>

\* variant: a connected worker adds one more chunk to the counter after
\* end.wait() has released it
EndWakeLateCredit(w) ==
    /\ pc[w] = "end_blocked"
    /\ BarrierWake("end", w, "done")
    /\ counter' = IF ret[w] = "Ok" THEN WideAdd(counter, ChunkBytes) ELSE counter
    /\ credited' = IF ret[w] = "Ok" THEN WideAdd(credited, ChunkBytes) ELSE credited
    /\ UNCHANGED <<retry, ret, trace, flag, final>>
    /\ UNCHANGED <<data_counter, ops, pend, tmp, lock>>
    /\ UNCHANGED <<inputVars, pingVars>>

EndWake(w) ==
    /\ pc[w] = "end_blocked"
    /\ BarrierWake("end", w, "done")
    /\ UNCHANGED <<retry, ret, trace, flag, final>>
    /\ UNCHANGED <<inputVars, workVars, pingVars>>

\* ---- request_http_download ---------------------------------------------
\* variant: the GET request head is credited to the counter as in upload
DlSendGetCounted(w) ==
    /\ kind[w] = "download"
    /\ pc[w] = "send_head"
    /\ ops' = ops + 1
    /\ \E ok \in BOOLEAN :
         IF ok
         THEN /\ pend' = [pend EXCEPT ![w] = "head"]
              /\ pc' = [pc EXCEPT ![w] = "credit"]
         ELSE /\ pend' = pend
              /\ pc' = [pc EXCEPT ![w] = "end_wait"]
    /\ UNCHANGED <<retry, ret, trace>>
    /\ UNCHANGED <<data_counter, tmp, credited, counter, lock>>
    /\ UNCHANGED <<inputVars, syncVars, pingVars>>

\* variant: a GET request that was sent leaves the local counter alone
DlSendGetKeepsCounter(w) ==
    /\ kind[w] = "download"
    /\ pc[w] = "send_head"
    /\ ops' = ops + 1
    /\ \E ok \in BOOLEAN :
         IF ok
         THEN /\ data_counter' = data_counter
              /\ pc' = [pc EXCEPT ![w] = "loop"]
         ELSE /\ data_counter' = data_counter
              /\ pc' = [pc EXCEPT ![w] = "end_wait"]
    /\ UNCHANGED <<retry, ret, trace>>
    /\ UNCHANGED <<pend, tmp, credited, counter, lock>>
    /\ UNCHANGED <<inputVars, syncVars, pingVars>>

\* lines 138-149: stream.write_all(&request_head) of the GET request
DlSendGet(w) ==
    /\ kind[w] = "download"
    /\ pc[w] = "send_head"
    /\ ops' = ops + 1
    /\ \E ok \in BOOLEAN :
         IF ok
         THEN /\ data_counter' = [data_counter EXCEPT ![w] = Wide(0)]
              /\ pc' = [pc EXCEPT ![w] = "loop"]
         ELSE /\ data_counter' = data_counter
              /\ pc' = [pc EXCEPT ![w] = "end_wait"]
    /\ UNCHANGED <<retry, ret, trace>>
    /\ UNCHANGED <<pend, tmp, credited, counter, lock>>
    /\ UNCHANGED <<inputVars, syncVars, pingVars>>

\* variant: a failed read_exact is followed by another turn of the loop
DlReadChunkRetries(w) ==
    /\ kind[w] = "download"
    /\ pc[w] = "io_chunk"
    /\ ops' = ops + 1
    /\ \E ok \in BOOLEAN :
         IF ok
         THEN /\ pend' = [pend EXCEPT ![w] = "chunk"]
              /\ pc' = [pc EXCEPT ![w] = "credit"]
         ELSE /\ pend' = pend
              /\ pc' = [pc EXCEPT ![w] = "loop"]
    /\ UNCHANGED <<retry, ret, trace>>
    /\ UNCHANGED <<data_counter, tmp, credited, counter, lock>>
    /\ UNCHANGED <<inputVars, syncVars, pingVars>>

\* lines 151-166: stream.read_exact(&mut buffer)
DlReadChunk(w) ==
    /\ kind[w] = "download"
    /\ pc[w] = "io_chunk"
    /\ ops' = ops + 1
    /\ \E ok \in BOOLEAN :
         IF ok
         THEN /\ pend' = [pend EXCEPT ![w] = "chunk"]
              /\ pc' = [pc EXCEPT ![w] = "credit"]
         ELSE /\ pend' = pend
              /\ pc' = [pc EXCEPT ![w] = "end_wait"]
    /\ UNCHANGED <<retry, ret, trace>>
    /\ UNCHANGED <<data_counter, tmp, credited, counter, lock>>
    /\ UNCHANGED <<inputVars, syncVars, pingVars>>

\* ---- request_http_upload -----------------------------------------------
\* lines 230-246: stream.write_all(&request_head) of the POST header
UlSendPost(w) ==
    /\ kind[w] = "upload"
    /\ pc[w] = "send_head"
    /\ ops' = ops + 1
    /\ \E ok \in BOOLEAN :
         IF ok
         THEN /\ pend' = [pend EXCEPT ![w] = "head"]
              /\ pc' = [pc EXCEPT ![w] = "credit"]
         ELSE /\ pend' = pend
              /\ pc' = [pc EXCEPT ![w] = "end_wait"]
    /\ UNCHANGED <<retry, ret, trace>>
    /\ UNCHANGED <<data_counter, tmp, credited, counter, lock>>
    /\ UNCHANGED <<inputVars, syncVars, pingVars>>

\* lines 248-263: stream.write_all(&request_chunk)
UlWriteChunk(w) ==
    /\ kind[w] = "upload"
    /\ pc[w] = "io_chunk"
    /\ ops' = ops + 1
    /\ \E ok \in BOOLEAN :
         IF ok
         THEN /\ pend' = [pend EXCEPT ![w] = "chunk"]
              /\ pc' = [pc EXCEPT ![w] = "credit"]
         ELSE /\ pend' = pend
              /\ pc' = [pc EXCEPT ![w] = "end_wait"]
    /\ UNCHANGED <<retry, ret, trace>>
    /\ UNCHANGED <<data_counter, tmp, credited, counter, lock>>
    /\ UNCHANGED <<inputVars, syncVars, pingVars>>

\* ---- the orchestrator of a measurement run ------------------------------
OrchStartArrive ==
    /\ pc[Orch] = "o_start"
    /\ BarrierArrive("start", Orch, "o_run", "o_start_blocked")
    /\ UNCHANGED <<retry, ret, trace, flag, final>>
    /\ UNCHANGED <<inputVars, workVars, pingVars>>

OrchStartWake ==
    /\ pc[Orch] = "o_start_blocked"
    /\ BarrierWake("start", Orch, "o_run")
    /\ UNCHANGED <<retry, ret, trace, flag, final>>
    /\ UNCHANGED <<inputVars, workVars, pingVars>>

\* the measurement window elapses: the stop flag goes false -> true
OrchSetFlag ==
    /\ pc[Orch] = "o_run"
    /\ flag' = TRUE
    /\ pc' = [pc EXCEPT ![Orch] = "o_end"]
    /\ UNCHANGED <<retry, ret, trace>>
    /\ UNCHANGED <<bcount, bgen, lgen, arrived, final>>
    /\ UNCHANGED <<inputVars, workVars, pingVars>>

OrchEndArrive ==
    /\ pc[Orch] = "o_end"
    /\ BarrierArrive("end", Orch, "o_read", "o_end_blocked")
    /\ UNCHANGED <<retry, ret, trace, flag, final>>
    /\ UNCHANGED <<inputVars, workVars, pingVars>>

OrchEndWake ==
    /\ pc[Orch] = "o_end_blocked"
    /\ BarrierWake("end", Orch, "o_read")
    /\ UNCHANGED <<retry, ret, trace, flag, final>>
    /\ UNCHANGED <<inputVars, workVars, pingVars>>

\* the orchestrator reads the final value of the counter
OrchRead ==
    /\ pc[Orch] = "o_read"
    /\ final' = counter
    /\ pc' = [pc EXCEPT ![Orch] = "o_done"]
    /\ UNCHANGED <<retry, ret, trace>>
    /\ UNCHANGED <<flag, bcount, bgen, lgen, arrived>>
    /\ UNCHANGED <<inputVars, workVars, pingVars>>

\* ---- the measurement run ------------------------------------------------
WorkerStep(w) ==
    \/ WorkerSetup(w)
    \/ McAttempt(w)
    \/ McExhausted(w)
    \/ StartArrive(w)
    \/ StartWake(w)
    \/ LoopCheck(w)
    \/ DlSendGet(w)
    \/ DlReadChunk(w)
    \/ UlSendPost(w)
    \/ UlWriteChunk(w)
    \/ CounterLock(w)
    \/ CounterAdd(w)
    \/ EndArrive(w)
    \/ EndWake(w)

OrchStep ==
    \/ OrchStartArrive
    \/ OrchStartWake
    \/ OrchSetFlag
    \/ OrchEndArrive
    \/ OrchEndWake
    \/ OrchRead

Next == (\E w \in Workers : WorkerStep(w)) \/ OrchStep

Spec == Init /\ [][Next]_vars

\* the measurement run under fair scheduling: a thread that can take a step
\* is eventually run, and a connect, read or write that has been started
\* returns (its step is the thread's next step)
FairSpec ==
    /\ InitFair
    /\ [][Next]_vars
    /\ \A w \in Workers : WF_vars(WorkerStep(w))
    /\ WF_vars(OrchStep)

\* ---- one connected worker followed through a whole request cycle --------
\* read_exact / write_all calls of 65536 bytes that make up one declared
\* total (lines 97 / 190 and 153 / 250; Radix equals the chunk size)
ChunksPerRequest(cc) == DataSize(cc).hi

\* the run just after the start barrier has released everybody: the first
\* worker is connected and about to enter its loop (line 118 / 213), every
\* other worker failed to connect and already waits at the end barrier
\* (line 112 / 207), the orchestrator has not set the stop flag yet
CycleStart ==
    /\ \E k \in {"download", "upload"} : kind = [w \in Workers |-> k]
    /\ ssl = FALSE
    /\ connection_close \in BOOLEAN
    /\ host = "ok"
    /\ pc = [p \in Procs |-> IF p = 1 THEN "loop"
                              ELSE IF p \in Workers THEN "end_blocked"
                              ELSE IF p = Orch THEN "o_run" ELSE "idle"]
    /\ retry = [p \in Procs |-> 0]
    /\ ret = [p \in Procs |-> IF p = 1 THEN "Ok"
                               ELSE IF p \in Workers THEN "Err" ELSE "none"]
    /\ trace = <<>>
    /\ data_counter = [w \in Workers |-> DataSize(connection_close)]
    /\ ops = 0
    /\ pend = [w \in Workers |-> "none"]
    /\ tmp = [w \in Workers |-> Wide(0)]
    /\ credited = Wide(0)
    /\ counter = Wide(0)
    /\ lock = 0
    /\ flag = FALSE
    /\ bcount = [b \in Barriers |-> IF b = "end" THEN NumWorkers - 1 ELSE 0]
    /\ bgen = [b \in Barriers |-> IF b = "start" THEN 1 ELSE 0]
    /\ lgen = [p \in Procs |-> 0]
    /\ arrived = [b \in Barriers |-> [p \in Procs |->
                     IF b = "start" THEN (IF p \in Parties THEN 1 ELSE 0)
                     ELSE (IF p \in Workers \ {1} THEN 1 ELSE 0)]]
    /\ final = Wide(0)
    /\ ping_pc = "idle"
    /\ ping_addr = 0
    /\ ping_r = "none"
    /\ ping_used = -1
    /\ ping_ret = <<"none">>
    /\ ping_attempts = 0

InitCycle ==
    /\ CycleStart
    /\ op_limit = 1 + ChunksPerRequest(connection_close) + ExtraOps

\* lines 118-169 / 213-266: the loop of the worker and its end.wait(), and
\* the orchestrator setting the stop flag at any moment
NextCycle ==
    \/ \E w \in Workers :
          \/ LoopCheck(w)
          \/ DlSendGet(w)
          \/ DlReadChunk(w)
          \/ UlSendPost(w)
          \/ UlWriteChunk(w)
          \/ CounterLock(w)
          \/ CounterAdd(w)
          \/ EndArrive(w)
    \/ OrchSetFlag

SpecCycle == InitCycle /\ [][NextCycle]_vars

\* ---- request_tcp_ping ---------------------------------------------------
\* line 64: let now = Instant::now()
PingStart ==
    /\ ping_pc = "p_start"
    /\ ping_pc' = "p_connect"
    /\ UNCHANGED <<ping_addr, ping_r, ping_used, ping_ret, ping_attempts>>
    /\ UNCHANGED <<inputVars, connVars, workVars, syncVars>>

\* line 65: the single TcpStream::connect_timeout(.., 1_000_000 us)
PingConnect ==
    /\ ping_pc = "p_connect"
    /\ \E r \in ConnectOutcomes : ping_r' = r
    /\ ping_attempts' = ping_attempts + 1
    /\ ping_pc' = "p_elapsed"
    /\ UNCHANGED <<ping_addr, ping_used, ping_ret>>
    /\ UNCHANGED <<inputVars, connVars, workVars, syncVars>>

\* line 66: let used = now.elapsed().as_micros(); a connect that timed out
\* has waited for the whole timeout, any other outcome may take any time
PingElapsed ==
    /\ ping_pc = "p_elapsed"
    /\ \E u \in Elapsed :
         /\ ping_r = "timeout" => u >= PingTimeout
         /\ ping_used' = u
    /\ ping_pc' = "p_match"
    /\ UNCHANGED <<ping_addr, ping_r, ping_ret, ping_attempts>>
    /\ UNCHANGED <<inputVars, connVars, workVars, syncVars>>

\* variant: the measured time is returned whatever the outcome
PingValueRaw(r, used) == used

\* what the match of lines 67-75 evaluates to
PingValue(r, used) == IF r = "ok" THEN used ELSE PingSentinel

\* lines 67-76: match r { Ok(_) => used, Err(_) => 1_000_000 }; Ok(used)
PingReturn ==
    /\ ping_pc = "p_match"
    /\ ping_ret' = <<"Ok", PingValue(ping_r, ping_used)>>
    /\ ping_pc' = "p_done"
    /\ UNCHANGED <<ping_addr, ping_r, ping_used, ping_attempts>>
    /\ UNCHANGED <<inputVars, connVars, workVars, syncVars>>

NextPing == PingStart \/ PingConnect \/ PingElapsed \/ PingReturn

SpecPing == InitPing /\ [][NextPing]_vars

\* ---- properties ---------------------------------------------------------
LoopPcs == {"loop", "send_head", "io_chunk", "credit", "credit_add"}

ConnFailed(w) == ret[w] = "Err"

AllConnFailed == \A w \in Workers : ConnFailed(w)

AllDownload == \A w \in Workers : kind[w] = "download"

\* a party waits on barrier b and the generation it saw has not moved
Waiting(p) ==
    \/ pc[p] \in {"start_blocked", "o_start_blocked"} /\ bgen["start"] = lgen[p]
    \/ pc[p] \in {"end_blocked", "o_end_blocked"} /\ bgen["end"] = lgen[p]

\* a party that has neither terminated nor is held by a barrier
Runnable(p) == pc[p] \notin {"done", "panicked", "o_done"} /\ ~Waiting(p)

RunComplete ==
    /\ \A w \in Workers : pc[w] = "done"
    /\ pc[Orch] = "o_done"

\* C1: a worker whose make_connection returned Err calls barrier.wait() once,
\* then end.wait() once, never enters the loop, and has made both calls
\* when it terminates
C1_FailedWorkerMeetsBothBarriers ==
    \A w \in Workers :
        ConnFailed(w) =>
            /\ pc[w] \in {"mc_ret", "start_blocked", "end_wait", "end_blocked", "done"}
            /\ arrived["start"][w] = (IF pc[w] = "mc_ret" THEN 0 ELSE 1)
            /\ arrived["end"][w] = (IF pc[w] \in {"end_blocked", "done"} THEN 1 ELSE 0)
            /\ arrived["end"][w] <= arrived["start"][w]

C1_Witness ==
    \E w \in Workers :
        /\ ConnFailed(w)
        /\ pc[w] = "done"
        /\ arrived["start"][w] = 1
        /\ arrived["end"][w] = 1

\* C2: whatever failures occur, no party is held by a barrier in a state
\* where no party is able to run
C2_FailureStaysLocal ==
    (\E p \in Parties : Waiting(p)) => (\E q \in Parties : Runnable(q))

\* C3: when every worker has failed to connect the counter stays 0, the
\* orchestrator reads 0, and the run is either complete or able to take a
\* step (every step advances a program counter, so it cannot run forever)
C3_AllFailedRunTerminates ==
    AllConnFailed =>
        /\ counter = Wide(0)
        /\ pc[Orch] = "o_done" => final = Wide(0)
        /\ RunComplete \/ ENABLED Next

C3_Witness ==
    /\ AllConnFailed
    /\ RunComplete
    /\ counter = Wide(0)
    /\ final = Wide(0)

\* C4: no stream call has been made or returned and the counter is untouched
\* unless every party has arrived at the start barrier
C4_StartBarrier ==
    (\/ ops > 0
     \/ counter # Wide(0)
     \/ \E w \in Workers : pc[w] \in LoopPcs)
        => \A p \in Parties : arrived["start"][p] >= 1

C4_Witness ==
    /\ ops > 0
    /\ counter # Wide(0)
    /\ \A p \in Parties : arrived["start"][p] = 1

\* C5: once the end barrier has released the orchestrator every worker has
\* arrived at it, nobody holds the counter, and the counter and the value
\* the orchestrator reads equal the sum of all credits
C5_EndBarrier ==
    pc[Orch] \in {"o_read", "o_done"} =>
        /\ \A w \in Workers : pc[w] \in {"end_blocked", "done"}
        /\ lock = 0
        /\ counter = credited
        /\ pc[Orch] = "o_done" => final = credited

C5_Witness ==
    /\ pc[Orch] = "o_done"
    /\ final = credited
    /\ WideGeq(final, Wide(2 * ChunkBytes))
    /\ \E w \in Workers : pc[w] = "end_blocked"

\* C6: with download workers only the counter is always a multiple of 65536,
\* it changes only by +65536 in the step that credits a read chunk, and the
\* step that sends a GET head leaves it alone
C6_DownloadCounter ==
    /\ [](AllDownload => WideMod(counter, ChunkBytes) = 0)
    /\ [][AllDownload =>
            /\ WideGeq(counter', counter)
            /\ counter' # counter =>
                 /\ counter' = WideAdd(counter, ChunkBytes)
                 /\ \E w \in Workers :
                      pc[w] = "credit_add" /\ pend[w] = "chunk" /\ pc'[w] = "loop"
            /\ \A w \in Workers :
                 pc[w] = "send_head" /\ pc'[w] # "send_head" => counter' = counter
       ]_vars

C6_Witness ==
    /\ AllDownload
    /\ counter = Wide(2 * ChunkBytes)
    /\ \E w \in Workers : pc[w] = "end_wait" /\ ops >= 3

\* C7: a step of an upload worker changes the counter only by +65536 when it
\* credits a written chunk or by the byte length of the POST head when it
\* credits a written head; the step in which a write fails changes nothing
C7_UploadCredits ==
    [][\A w \in Workers :
          kind[w] = "upload" /\ pc'[w] # pc[w] =>
            /\ counter' # counter =>
                 /\ pc[w] = "credit_add"
                 /\ \/ pend[w] = "chunk" /\ counter' = WideAdd(counter, 65536)
                    \/ pend[w] = "head"
                         /\ counter' = WideAdd(counter, Len(PostHead(connection_close)))
            /\ pc'[w] = "end_wait" => counter' = counter /\ pend'[w] = "none"
      ]_vars

C7_Witness ==
    \E w \in Workers :
        /\ kind[w] = "upload"
        /\ \A v \in Workers \ {w} : ret[v] # "Ok"
        /\ pc[w] = "loop"
        /\ counter = Wide(Len(PostHead(connection_close)) + 65536)

\* C8: without encryption make_connection makes at most 3 connect attempts,
\* returns Ok in the attempt that first succeeds and Err only after 3
\* failed attempts
C8_ConnectRetry ==
    ~ssl =>
        /\ Len(trace) <= 3
        /\ \A i \in 1..Len(trace) : trace[i] = "ok" => i = Len(trace)
        /\ (\E i \in 1..Len(trace) : trace[i] = "ok") <=> ret[Caller] = "Ok"
        /\ ret[Caller] = "Err" <=>
              (Len(trace) = 3 /\ pc[Caller] = "mc_ret" /\ ret[Caller] # "Ok")
        /\ pc[Caller] = "mc" /\ Len(trace) = 3 => retry[Caller] = 0

C8_Witness ==
    /\ ~ssl
    /\ ret[Caller] = "Ok"
    /\ pc[Caller] = "mc_ret"
    /\ trace = <<"refused", "timeout", "ok">>

\* C9: a call of make_connection that has ended has returned Ok or Err
C9_ReturnsOkOrErr ==
    pc[Caller] \notin {"call", "mc"} => ret[Caller] \in {"Ok", "Err"}

\* C10: request_tcp_ping makes one connect attempt, returns Ok, and returns
\* Ok(1_000_000) when the attempt failed, whatever time was measured
C10_PingSentinel ==
    /\ ping_attempts <= 1
    /\ ping_pc = "p_done" =>
         /\ ping_attempts = 1
         /\ ping_ret[1] = "Ok"
         /\ ping_r # "ok" => ping_ret = <<"Ok", 1000000>>

C10_Witness ==
    /\ ping_pc = "p_done"
    /\ ping_r = "refused"
    /\ ping_used = 250
    /\ ping_ret = <<"Ok", 1000000>>

\* C11: when the single connect of request_tcp_ping succeeded, the value
\* returned is strictly below 1_000_000, the value returned for a failure
C11_ReachableBelowSentinel ==
    ping_pc = "p_done" /\ ping_r = "ok" =>
        /\ ping_ret[1] = "Ok"
        /\ ping_ret[2] < 1000000

\* C12: the step in which a stream call of a connected worker fails takes
\* the worker to end.wait() and leaves both counters alone; from there the
\* worker makes no stream call, no connect attempt and no counter update,
\* it only arrives at the end barrier, and it arrives there once
C12_IoErrorEndsLoop ==
    /\ [](\A w \in Workers :
            /\ arrived["end"][w] <= 1
            /\ pc[w] = "end_wait" => arrived["end"][w] = 0
            /\ pc[w] \in {"end_blocked", "done"} => arrived["end"][w] = 1)
    /\ [][\A w \in Workers :
            pc'[w] # pc[w] =>
              /\ pc[w] = "io_chunk" => pc'[w] \in {"credit", "end_wait"}
              /\ pc[w] = "send_head" => pc'[w] \in {"loop", "credit", "end_wait"}
              /\ pc[w] \in {"send_head", "io_chunk"} /\ pc'[w] = "end_wait" =>
                   /\ counter' = counter
                   /\ credited' = credited
                   /\ data_counter'[w] = data_counter[w]
                   /\ pend'[w] = "none"
              /\ pc[w] \in {"end_wait", "end_blocked"} =>
                   /\ pc'[w] \in {"end_blocked", "done"}
                   /\ UNCHANGED <<workVars, retry, ret, trace, flag>>
       ]_vars

C12_Witness ==
    \E w \in Workers :
        /\ kind[w] = "download"
        /\ \A v \in Workers \ {w} : ret[v] = "Err"
        /\ ~flag
        /\ pc[w] = "end_blocked"
        /\ ops = 3
        /\ counter = Wide(ChunkBytes)

\* C13: a worker starts a stream call only in the step that follows a read
\* of the stop flag that returned false, makes exactly one call per such
\* read and comes back to the flag read after the call and its credit; a
\* worker that reads the flag as true goes to end.wait() without touching
\* anything, so after the flag is set it finishes at most the call in
\* flight and adds at most the one increment of that call
C13_CooperativeStop ==
    [][\A w \in Workers :
          pc'[w] # pc[w] =>
            /\ pc'[w] \in {"send_head", "io_chunk"} => pc[w] = "loop" /\ ~flag
            /\ pc[w] \in {"send_head", "io_chunk"} =>
                 /\ ops' = ops + 1
                 /\ pc'[w] \in {"loop", "credit", "end_wait"}
            /\ pc[w] = "credit" => pc'[w] = "credit_add" /\ ops' = ops
            /\ pc[w] = "credit_add" => pc'[w] = "loop" /\ ops' = ops
            /\ counter' # counter => pc[w] = "credit_add"
            /\ flag /\ pc[w] = "loop" =>
                 /\ pc'[w] = "end_wait"
                 /\ UNCHANGED workVars
      ]_vars

C13_Witness ==
    \E w \in Workers :
        /\ flag
        /\ pc[w] = "end_wait"
        /\ ret[w] = "Ok"
        /\ \A v \in Workers \ {w} : ret[v] = "Err"
        /\ ops = 2
        /\ counter = Wide(ChunkBytes)

\* C14: under fair scheduling, once the orchestrator has set the stop flag
\* every worker arrives at the end barrier and terminates and the
\* orchestrator is released from it and reads the counter
C14_RunTerminates == flag ~> RunComplete

C14_Witness ==
    /\ flag
    /\ RunComplete
    /\ \E w \in Workers : ret[w] = "Ok"
    /\ \E w \in Workers : ret[w] = "Err"
    /\ final = counter
    /\ counter # Wide(0)

\* C15 as claimed: an upload worker that has stopped writing has sent the
\* whole body its last POST head declared
C15_BodyCompleteAtStop ==
    \A w \in Workers :
        kind[w] = "upload" /\ ret[w] = "Ok"
            /\ pc[w] \in {"end_wait", "end_blocked", "done"}
        => data_counter[w] = DataSize(connection_close)

\* C15 amended: an upload worker never writes more payload than its last
\* POST head declared, writes it in chunks of 65536 bytes, and writes
\* another POST head only when the payload written since the last one is
\* exactly the declared length, that is after 800 chunks (240000 in
\* connection-close mode); a worker that stops may leave the body short
C15_BodyBeforeNextHead ==
    \A w \in Workers :
        kind[w] = "upload" /\ ret[w] = "Ok" =>
            /\ WideGeq(DataSize(connection_close), data_counter[w])
            /\ WideMod(data_counter[w], 65536) = 0
            /\ pc[w] = "send_head" =>
                 /\ data_counter[w] = DataSize(connection_close)
                 /\ ops % (1 + (IF connection_close THEN 240000 ELSE 800)) = 0
            /\ pc[w] = "io_chunk" =>
                 /\ data_counter[w] # DataSize(connection_close)
                 /\ WideGeq(DataSize(connection_close),
                            WideAdd(data_counter[w], 65536))
            /\ pc[w] \in {"credit", "credit_add"} /\ pend[w] = "head" =>
                 data_counter[w] = DataSize(connection_close)

C15_Witness ==
    /\ kind[1] = "upload"
    /\ ~connection_close
    /\ pc[1] = "credit"
    /\ pend[1] = "head"
    /\ ops = 802
    /\ data_counter[1] = Wide(800 * 65536)

\* C16: at most one worker is between loading the counter and storing it
\* back, and it is the holder of the write guard; the counter always equals
\* the sum of the increments the workers have applied, and no step makes it
\* smaller
C16_CounterIsSumOfCredits ==
    /\ [](/\ counter = credited
          /\ lock \in {0} \cup Workers
          /\ \A w \in Workers : pc[w] = "credit_add" <=> lock = w
          /\ \A w \in Workers : pc[w] = "credit_add" => tmp[w] = counter)
    /\ [][WideGeq(counter', counter)]_vars

C16_Witness ==
    \E w, v \in Workers :
        /\ w # v
        /\ pc[w] = "credit_add"
        /\ lock = w
        /\ pc[v] = "credit"
        /\ counter # Wide(0)

\* the byte count of r chunks of 65536 bytes
ChunksAsBytes(r) == WideMul(WideMul(Wide(r), 256), 256)

\* successful reads a download request is followed by, per mode
ReadsPerGet == IF connection_close THEN 240000 ELSE 800

\* C17: in a run whose only connected worker is a download worker, the
\* stream calls come in rounds of one GET followed by 800 reads (240000 in
\* connection-close mode): the first call after the start barrier is a GET,
\* a GET that was sent sets the local counter to 0, every read that
\* succeeded adds 65536 to it, and the next GET is sent only when it has
\* reached the declared total
C17_DownloadCycle ==
    /\ [](\A w \in Workers :
            kind[w] = "download" /\ ret[w] = "Ok" =>
              /\ pc[w] = "send_head" =>
                   /\ ops % (1 + ReadsPerGet) = 0
                   /\ data_counter[w] = ChunksAsBytes(ReadsPerGet)
              /\ pc[w] = "io_chunk" => ops % (1 + ReadsPerGet) # 0
              /\ pc[w] \in {"loop", "io_chunk"} /\ ops > 0 =>
                   data_counter[w] = ChunksAsBytes((ops - 1) % (1 + ReadsPerGet)))
    /\ [][\A w \in Workers :
            kind[w] = "download" =>
              /\ pc[w] = "send_head" /\ pc'[w] = "loop" =>
                   data_counter'[w] = Wide(0) /\ counter' = counter
              /\ pc[w] = "credit_add" /\ pc'[w] = "loop" =>
                   data_counter'[w] = WideAdd(data_counter[w], 65536)
              /\ data_counter'[w] # data_counter[w] =>
                   pc[w] \in {"send_head", "credit_add"}
       ]_vars

C17_Witness ==
    /\ kind[1] = "download"
    /\ connection_close
    /\ pc[1] = "loop"
    /\ ops = 240002
    /\ data_counter[1] = Wide(0)
    /\ counter = ChunksAsBytes(240000)

\* C18: in a call of make_connection with encryption whose server name is
\* missing or invalid, the connect attempt that succeeded is the last one
\* of the call: the call has ended there and no retry is left to spend
C18_NoConnectAfterNegotiationFailure ==
    ssl /\ host # "ok" =>
        \A i \in 1..Len(trace) :
            trace[i] = "ok" =>
                /\ i = Len(trace)
                /\ pc[Caller] = "panicked"
                /\ ret[Caller] # "Ok"
                /\ retry[Caller] = 0

C18_Witness ==
    /\ ssl
    /\ host = "bad"
    /\ trace = <<"timeout", "ok">>
    /\ pc[Caller] = "panicked"

\* C19: in both kinds of worker and both modes the local counter is a
\* multiple of 65536 between 0 and data_size, data_size is itself a multiple
\* of 65536, and a chunk is read or written only when the counter plus
\* 65536 does not exceed data_size
C19_LocalCounterBounds ==
    /\ WideMod(DataSize(connection_close), 65536) = 0
    /\ \A w \in Workers :
          /\ data_counter[w].hi >= 0
          /\ data_counter[w].lo >= 0
          /\ WideGeq(DataSize(connection_close), data_counter[w])
          /\ WideMod(data_counter[w], 65536) = 0
          /\ \/ pc[w] = "io_chunk"
             \/ pc[w] \in {"credit", "credit_add"} /\ pend[w] = "chunk"
             => WideGeq(DataSize(connection_close),
                        WideAdd(data_counter[w], 65536))

C19_Witness ==
    /\ kind[1] = "download"
    /\ ~connection_close
    /\ pc[1] = "send_head"
    /\ ops = 801
    /\ data_counter[1] = DataSize(connection_close)
    /\ counter = ChunksAsBytes(800)

\* the stop flag is set and no worker has started a stream call or is about
\* to start one
StoppedBeforeWork ==
    /\ flag
    /\ ops = 0
    /\ \A w \in Workers :
          pc[w] \notin {"send_head", "io_chunk", "credit", "credit_add"}

\* C20: a connected worker that has made no stream call when the stop flag
\* is true makes none afterwards: released from the start barrier it reads
\* the flag and goes to end.wait(), leaving every counter alone; a run in
\* which the flag is set before any worker has started a call stays without
\* calls, its counter stays 0 and the orchestrator reads 0
C20_StopBeforeFirstRequest ==
    /\ [](StoppedBeforeWork =>
            /\ counter = Wide(0)
            /\ pc[Orch] = "o_done" => final = Wide(0))
    /\ [][/\ StoppedBeforeWork => StoppedBeforeWork'
          /\ \A w \in Workers :
                /\ flag
                /\ ret[w] = "Ok"
                /\ pc[w] \in {"start_blocked", "loop"}
                /\ data_counter[w] = DataSize(connection_close)
                /\ pc'[w] # pc[w]
                => /\ pc'[w] = (IF pc[w] = "loop" THEN "end_wait" ELSE "loop")
                   /\ UNCHANGED workVars
       ]_vars

C20_Witness ==
    /\ flag
    /\ ops = 0
    /\ RunComplete
    /\ \A w \in Workers : ret[w] = "Ok"
    /\ counter = Wide(0)
    /\ final = Wide(0)
====
